---- MODULE Spec2Model ----
(***************************************************************************)
(* Model of ctrl_bps: BpsCore.createSubmission (python/lsst/ctrl/bps/      *)
(* bpsCore.py) turns a QuantumGraph into a science graph and then into a   *)
(* generic workflow graph; GenericWorkflow (exercised by                   *)
(* tests/test_generic_workflow.py) is the container of named jobs.         *)
(*                                                                         *)
(* Python str values that the code takes apart (the "pipeline" setting and *)
(* task labels) are sequences of one-character strings; str values that    *)
(* are only built and compared (node names, dataset keys, paths) are TLA+  *)
(* strings built with \o.                                                  *)
(***************************************************************************)
EXTENDS Integers, Sequences, FiniteSets, TLC

\* ------------------------------------------------------------------------
\* Bounds and input domains

\* Largest total number of quanta in a QuantumGraph that is enumerated.
MaxQuanta == 3

None == "None"
\* The value of an attribute or local that is not set yet.
Unset == [unset |-> TRUE]
IsSet(x) == "unset" \notin DOMAIN x
\* An exception and the function that raised it; NoError: none was raised.
Raised(exc, at) == [exc |-> exc, at |-> at]
NoError == Raised(None, None)
FILENODE == "FILENODE"
TASKNODE == "TASKNODE"

\* Task labels of the pipeline, in the order of the QuantumGraph's groups.
TaskLabels == << <<"A">>, <<"B">>, <<"C">> >>

\* Dataset references (datasetType.name, str(dataId)).
DsRef(n, d) == [name |-> n, dataId |-> d]
raw1 == DsRef("raw", "{visit: 1}")
raw2 == DsRef("raw", "{visit: 2}")
cal1 == DsRef("calexp", "{visit: 1}")

\* A quantum: predictedInputs and outputs, each flattened in iteration order.
Quantum(i, o) == [predictedInputs |-> i, outputs |-> o]
QuantumShapes ==
    { Quantum(<<raw1>>, <<cal1>>),
      Quantum(<<cal1, raw2>>, <<>>),
      Quantum(<<>>, <<raw1>>) }

RECURSIVE SeqsUpTo(_, _)
\* All sequences over S of length at most n.
SeqsUpTo(S, n) ==
    IF n = 0 THEN {<<>>}
    ELSE LET shorter == SeqsUpTo(S, n - 1)
         IN  shorter \cup {Append(s, x) : s \in {t \in shorter : Len(t) = n - 1}, x \in S}

RECURSIVE QuantaOfGroups(_, _)
\* The quanta lists of k groups that hold n quanta at most in all.
QuantaOfGroups(k, n) ==
    IF k = 0 THEN {<<>>}
    ELSE UNION { {<<quanta>> \o rest : rest \in QuantaOfGroups(k - 1, n - Len(quanta))} :
                 quanta \in SeqsUpTo(QuantumShapes, n) }

\* QuantumGraphs: up to Len(TaskLabels) groups (QuantumGraphTaskNodes), the
\* i-th group carrying label TaskLabels[i], MaxQuanta quanta at most in all.
QGraphs ==
    { [i \in 1..Len(qs) |-> [label |-> TaskLabels[i], quanta |-> qs[i]]] :
        qs \in UNION {QuantaOfGroups(k, MaxQuanta) : k \in 0..Len(TaskLabels)} }

\* Values of the optional "pipeline" setting (None: the key is absent).
PipelineSettings ==
    { None,
      <<"A", ",", "B", ",", "C">>,
      <<"B", ",", " ", "A">>,
      <<"A", ",", "B", ",", "A">> }

Configs ==
    [ qgraph_file : BOOLEAN,
      runInit     : BOOLEAN,
      pipeline    : PipelineSettings ]

Range(f) == {f[i] : i \in DOMAIN f}

\* ------------------------------------------------------------------------
\* str helpers

Digits == <<"0", "1", "2", "3", "4", "5", "6", "7", "8", "9">>

RECURSIVE DecStr(_)
\* "%d" % n for n >= 0
DecStr(n) == IF n < 10 THEN Digits[n + 1] ELSE DecStr(n \div 10) \o Digits[(n % 10) + 1]

RECURSIVE ZeroPad(_, _)
ZeroPad(s, w) == IF Len(s) >= w THEN s ELSE ZeroPad("0" \o s, w)

\* "%06d" % n
NodeName(n) == ZeroPad(DecStr(n), 6)

RECURSIVE Str(_)
\* the str whose characters are cs
Str(cs) == IF cs = <<>> THEN "" ELSE Head(cs) \o Str(Tail(cs))

RECURSIVE Split(_, _)
\* s.split(sep) for a one-character sep
Split(s, sep) ==
    IF \A i \in 1..Len(s) : s[i] # sep THEN <<s>>
    ELSE LET i == CHOOSE k \in 1..Len(s) : s[k] = sep /\ \A j \in 1..(k - 1) : s[j] # sep
         IN  <<SubSeq(s, 1, i - 1)>> \o Split(SubSeq(s, i + 1, Len(s)), sep)

RECURSIVE Strip(_)
\* s.strip()
Strip(s) ==
    IF s = <<>> THEN s
    ELSE IF Head(s) = " " THEN Strip(Tail(s))
    ELSE IF s[Len(s)] = " " THEN Strip(SubSeq(s, 1, Len(s) - 1))
    ELSE s

\* [x.strip() for x in xs]
StripAll(xs) == [i \in 1..Len(xs) |-> Strip(xs[i])]

\* ------------------------------------------------------------------------
\* networkx.DiGraph: nodes in insertion order with their attributes, edges

EmptyGraph == [names |-> <<>>, attr |-> <<>>, edges |-> {}, graph |-> <<>>]

HasNode(g, n) == n \in DOMAIN g.attr

\* G.add_node(n, **a): a new node is appended; attributes of an existing one
\* are updated.
AddNode(g, n, a) ==
    IF HasNode(g, n)
    THEN [g EXCEPT !.attr = [m \in DOMAIN g.attr |->
                                IF m = n THEN a @@ g.attr[m] ELSE g.attr[m]]]
    ELSE [g EXCEPT !.names = Append(g.names, n), !.attr = (n :> a) @@ g.attr]

\* G.add_edge(u, v): endpoints that are not nodes yet are added without
\* attributes.
AddEdge(g, u, v) ==
    LET g1 == IF HasNode(g, u) THEN g
              ELSE [g EXCEPT !.names = Append(g.names, u), !.attr = (u :> <<>>) @@ g.attr]
        g2 == IF HasNode(g1, v) THEN g1
              ELSE [g1 EXCEPT !.names = Append(g1.names, v), !.attr = (v :> <<>>) @@ g1.attr]
    IN  [g2 EXCEPT !.edges = @ \cup {<<u, v>>}]

HasAttr(g, n, k) == HasNode(g, n) /\ k \in DOMAIN g.attr[n]
NodesOfType(g, t) == {n \in DOMAIN g.attr : HasAttr(g, n, "nodeType") /\ g.attr[n].nodeType = t}

\* ------------------------------------------------------------------------
\* countQuantum

\* The groups are counted, not their quanta
countQuantum_Tasks(qgraph) == Len(qgraph)

RECURSIVE countQuantum(_)
countQuantum(qgraph) ==
    IF qgraph = <<>> THEN 0
    ELSE Len(Head(qgraph).quanta) + countQuantum(Tail(qgraph))

\* ------------------------------------------------------------------------
\* BpsCore._createScienceGraph

\* A key that leaves the dataId out
DsName_NoDataId(dsRef) == dsRef.name \o "+"

\* dsName = "%s+%s" % (dsRef.datasetType.name, dsRef.dataId)
DsName(dsRef) == dsRef.name \o "+" \o dsRef.dataId

\* State of the builder's loops (display attributes of the nodes are left
\* out).
SciStart ==
    [g |-> EmptyGraph, ncnt |-> 0, tcnt |-> 0, dcnt |-> 0,
     mapId |-> <<>>, qgnodes |-> <<>>, pipeline |-> <<>>]

\* One dataset reference of a quantum: its FileNode (new when the key is not
\* in mapId) and the edge to (isInput) or from the TaskNode tnodeName.
SciDataset(st, dsRef, tnodeName, isInput) ==
    LET dsName == DsName(dsRef)
        fresh  == dsName \notin DOMAIN st.mapId
        ncnt1  == IF fresh THEN st.ncnt + 1 ELSE st.ncnt
        mapId1 == IF fresh THEN (dsName :> ncnt1) @@ st.mapId ELSE st.mapId
        fnodeName == NodeName(mapId1[dsName])
        g1 == AddNode(st.g, fnodeName, [nodeType |-> FILENODE])
        g2 == IF isInput THEN AddEdge(g1, fnodeName, tnodeName)
              ELSE AddEdge(g1, tnodeName, fnodeName)
    IN  [st EXCEPT !.g = g2, !.ncnt = ncnt1,
                   !.dcnt = IF fresh THEN @ + 1 ELSE @, !.mapId = mapId1]

RECURSIVE SciDatasets(_, _, _, _)
SciDatasets(st, dsRefs, tnodeName, isInput) ==
    IF dsRefs = <<>> THEN st
    ELSE SciDatasets(SciDataset(st, Head(dsRefs), tnodeName, isInput),
                     Tail(dsRefs), tnodeName, isInput)

\* One quantum of the group with index taskId and label taskAbbrev.
SciQuantum(st, taskId, taskAbbrev, quantum) ==
    LET ncnt1 == st.ncnt + 1
        tnodeName == NodeName(ncnt1)
        g1 == AddNode(st.g, tnodeName,
                      [nodeType |-> TASKNODE, task_def_id |-> taskId,
                       taskAbbrev |-> taskAbbrev])
        st1 == [st EXCEPT !.g = g1, !.ncnt = ncnt1, !.tcnt = @ + 1,
                          !.qgnodes = (tnodeName :>
                              [label |-> taskAbbrev, quanta |-> <<quantum>>]) @@ @]
        st2 == SciDatasets(st1, quantum.predictedInputs, tnodeName, TRUE)
    IN  SciDatasets(st2, quantum.outputs, tnodeName, FALSE)

RECURSIVE SciQuanta(_, _, _, _)
SciQuanta(st, taskId, taskAbbrev, quanta) ==
    IF quanta = <<>> THEN st
    ELSE SciQuanta(SciQuantum(st, taskId, taskAbbrev, Head(quanta)),
                   taskId, taskAbbrev, Tail(quanta))

RECURSIVE SciTasks(_, _, _)
\* for taskId, nodes in enumerate(self.qgraph), from index taskId on
SciTasks(st, qgraph, taskId) ==
    IF taskId >= Len(qgraph) THEN st
    ELSE LET nodes == qgraph[taskId + 1]
             st1 == [st EXCEPT !.pipeline = Append(@, nodes.label)]
         IN  SciTasks(SciQuanta(st1, taskId, nodes.label, nodes.quanta),
                      qgraph, taskId + 1)

\* self.pipeline at the end of _createScienceGraph
SciPipeline(cfg, derived) ==
    IF cfg.pipeline # None THEN Split(cfg.pipeline, ",") ELSE derived

\* ------------------------------------------------------------------------
\* BpsCore._updateTask

\* self.config.search(key, opt): the value the configuration resolves for key
\* under the current task and quantum file name.
ConfigSearch(key, curr_pipetask, qlfn) == <<key, curr_pipetask, qlfn>>

\* self.config["site"][computeSite]: the compute site's settings, and the
\* optional requestMemory / requestCpus settings (None: not found).
SiteConfig ==
    [ site |-> [profile |-> [condor |->
                  (<<"+", "J", "o", "b">> :> "prio") @@ (<<"r", "e", "q">> :> "mem>1")]],
      requestMemory |-> "2048",
      requestCpus |-> None ]

\* Entries of a site's profile.condor map; each key has a value of its own.
CondorEntries ==
    (<<"+", "J", "o", "b">> :> "prio")
    @@ (<<"+", "r", "e", "q", "u", "e", "s", "t", "_", "m", "e", "m", "o", "r", "y">> :> "attr")
    @@ (<<"r", "e", "q">> :> "mem>1")
    @@ (<<"r", "e", "q", "u", "e", "s", "t", "_", "m", "e", "m", "o", "r", "y">> :> "1024")
    @@ (<<"r", "e", "q", "u", "e", "s", "t", "_", "c", "p", "u", "s">> :> "1")

\* self.config["site"][computeSite]: without "profile", with a profile
\* without "condor", or with a condor map of some of the entries.
Sites ==
    { [attributes |-> <<>>], [profile |-> [pegasus |-> <<>>]] }
    \cup { [profile |-> [condor |-> [k \in K |-> CondorEntries[k]]]] :
             K \in SUBSET DOMAIN CondorEntries }

SiteConfigs ==
    [ site : Sites, requestMemory : {None, "2048"}, requestCpus : {None, "4"} ]

RECURSIVE CondorItems(_, _, _)
\* for k, v in profile["condor"].items(): "+" keys are attributes (without
\* the "+"), the others are profile values. acc = [jobProfile, jobAttribs].
CondorItems(condor, keys, acc) ==
    IF keys = {} THEN acc
    ELSE LET k == CHOOSE x \in keys : TRUE
             acc1 == IF k # <<>> /\ Head(k) = "+"
                     THEN [acc EXCEPT !.jobAttribs = (Tail(k) :> condor[k]) @@ @]
                     ELSE [acc EXCEPT !.jobProfile = (k :> condor[k]) @@ @]
         IN  CondorItems(condor, keys \ {k}, acc1)

request_memory == <<"r", "e", "q", "u", "e", "s", "t", "_", "m", "e", "m", "o", "r", "y">>
request_cpus == <<"r", "e", "q", "u", "e", "s", "t", "_", "c", "p", "u", "s">>

\* A condor entry of the site wins over requestMemory and requestCpus
UpdateTaskAttrs_SiteWins(sc, taskAbbrev, qlfn) ==
    LET acc0 == [jobProfile |-> <<>>, jobAttribs |-> <<>>]
        acc1 == IF "profile" \in DOMAIN sc.site /\ "condor" \in DOMAIN sc.site.profile
                THEN CondorItems(sc.site.profile.condor, DOMAIN sc.site.profile.condor, acc0)
                ELSE acc0
        p1 == IF sc.requestMemory # None
              THEN acc1.jobProfile @@ (request_memory :> sc.requestMemory)
              ELSE acc1.jobProfile
        p2 == IF sc.requestCpus # None THEN p1 @@ (request_cpus :> sc.requestCpus) ELSE p1
        base == [exec_name |-> ConfigSearch("runQuantumExec", taskAbbrev, qlfn),
                 exec_args |-> ConfigSearch("runQuantumArgs", taskAbbrev, qlfn)]
        withP == IF DOMAIN p2 # {} THEN ("jobProfile" :> p2) @@ base ELSE base
    IN  IF DOMAIN acc1.jobAttribs # {}
        THEN ("jobAttribs" :> acc1.jobAttribs) @@ withP ELSE withP

\* The attributes _updateTask sets on the node tnode.
UpdateTaskAttrs(sc, taskAbbrev, qlfn) ==
    LET acc0 == [jobProfile |-> <<>>, jobAttribs |-> <<>>]
        acc1 == IF "profile" \in DOMAIN sc.site /\ "condor" \in DOMAIN sc.site.profile
                THEN CondorItems(sc.site.profile.condor, DOMAIN sc.site.profile.condor, acc0)
                ELSE acc0
        p1 == IF sc.requestMemory # None
              THEN (request_memory :> sc.requestMemory) @@ acc1.jobProfile
              ELSE acc1.jobProfile
        p2 == IF sc.requestCpus # None THEN (request_cpus :> sc.requestCpus) @@ p1 ELSE p1
        base == [exec_name |-> ConfigSearch("runQuantumExec", taskAbbrev, qlfn),
                 exec_args |-> ConfigSearch("runQuantumArgs", taskAbbrev, qlfn)]
        withP == IF DOMAIN p2 # {} THEN ("jobProfile" :> p2) @@ base ELSE base
    IN  IF DOMAIN acc1.jobAttribs # {}
        THEN ("jobAttribs" :> acc1.jobAttribs) @@ withP ELSE withP

_updateTask(g, sc, taskAbbrev, tnodeName, qlfn) ==
    AddNode(g, tnodeName, UpdateTaskAttrs(sc, taskAbbrev, qlfn))

\* ------------------------------------------------------------------------
\* BpsCore._createWorkflowGraph: the loop over the nodes

submitPath == "submit"

RECURSIVE PathJoin(_)
\* os.path.join(*parts) for relative parts
PathJoin(parts) ==
    IF Len(parts) = 1 THEN parts[1] ELSE parts[1] \o "/" \o PathJoin(Tail(parts))

\* basename(os.path.join(*parts)) for parts without "/"
Basename(parts) == parts[Len(parts)]

\* Lookup in a dict with a default
Get(d, k, default) == IF k \in DOMAIN d THEN d[k] ELSE default

\* The counter of the new nodes starts at 0
WfStart_CountFromZero(sci, gname) ==
    [g |-> [sci EXCEPT !.graph = [gname |-> gname, gtype |-> "workflow"]],
     ncnt |-> 0, taskcnts |-> <<>>, qcnt |-> 0, init_nodes |-> <<>>,
     sfNodeName |-> None, writes |-> <<>>, err |-> None]

\* Locals of _createWorkflowGraph at the start of the loop; g is
\* networkx.DiGraph(self.sciGraph, gname=gname, gtype="workflow").
WfStart(sci, gname) ==
    [g |-> [sci EXCEPT !.graph = [gname |-> gname, gtype |-> "workflow"]],
     ncnt |-> Len(sci.names), taskcnts |-> <<>>, qcnt |-> 0, init_nodes |-> <<>>,
     sfNodeName |-> None, writes |-> <<>>, err |-> None]

\* The same name for the quantum file of every job
Qlfn_NoNodeName(nodename) == "quantum.pickle"

\* qlfn = "quantum%s.pickle" % nodename
Qlfn(nodename) == "quantum" \o nodename \o ".pickle"

\* save_single_qgnode: a QuantumGraph holding qgnode alone is written to
\* outFilename; files is the sequence of the writes made so far.
save_single_qgnode(files, qgnode, outFilename) ==
    Append(files, [path |-> outFilename, content |-> <<qgnode>>])

\* job_attrib of an init job
InitJobAttrib(gname, taskAbbrev) ==
    [bps_isjob |-> "True", bps_run |-> gname, bps_runsite |-> "TODO",
     bps_jobabbrev |-> taskAbbrev]

\* The init job and its output file of taskAbbrev, made for the job nodename
\* whose quantum file node is qNodeName.
WfNewInit(w, sc, gname, nodename, taskAbbrev, qNodeName, qlfn) ==
    LET stNodeName == NodeName(w.ncnt + 1)
        lfn == Str(taskAbbrev) \o "_init"
        g1 == AddNode(w.g, stNodeName,
                      [nodeType |-> TASKNODE,
                       task_def_id |-> w.g.attr[nodename].task_def_id,
                       taskAbbrev |-> taskAbbrev,
                       job_attrib |-> InitJobAttrib(gname, taskAbbrev),
                       label |-> lfn])
        g2 == _updateTask(g1, sc, <<"pipetask_init">>, stNodeName, qlfn)
        sfNodeName == NodeName(w.ncnt + 2)
        g3 == AddNode(g2, sfNodeName,
                      [nodeType |-> FILENODE, lfn |-> lfn, label |-> lfn,
                       ignore |-> TRUE, data_type |-> lfn])
        g4 == AddEdge(AddEdge(g3, stNodeName, sfNodeName), qNodeName, stNodeName)
    IN  [w EXCEPT !.g = g4, !.ncnt = @ + 2,
                  !.taskcnts = [@ EXCEPT ![taskAbbrev] = @ + 1],
                  !.init_nodes = (taskAbbrev :>
                       ((TASKNODE :> stNodeName) @@ (FILENODE :> sfNodeName))) @@ @,
                  !.sfNodeName = sfNodeName]

\* The edge from the init output file is added for the first job of a task
\* only
WfInit_FirstJobOnly(w, sc, gname, nodename, taskAbbrev, qNodeName, qlfn) ==
    IF taskAbbrev \in DOMAIN w.init_nodes THEN w
    ELSE LET w1 == WfNewInit(w, sc, gname, nodename, taskAbbrev, qNodeName, qlfn)
         IN  [w1 EXCEPT !.g = AddEdge(@, w1.sfNodeName, nodename)]

\* The cache of init nodes is not consulted
WfInit_NoCache(w, sc, gname, nodename, taskAbbrev, qNodeName, qlfn) ==
    LET w1 == WfNewInit(w, sc, gname, nodename, taskAbbrev, qNodeName, qlfn)
    IN  [w1 EXCEPT !.g = AddEdge(@, w1.sfNodeName, nodename)]

\* The edge starts at the value sfNodeName had before the init nodes of the
\* job's task were looked up or made
WfInit_StaleSfNodeName(w, sc, gname, nodename, taskAbbrev, qNodeName, qlfn) ==
    LET w1 == IF taskAbbrev \in DOMAIN w.init_nodes THEN w
              ELSE WfNewInit(w, sc, gname, nodename, taskAbbrev, qNodeName, qlfn)
    IN  [w1 EXCEPT !.g = AddEdge(@, w.sfNodeName, nodename)]

\* if self.config.get("runInit", ...): the init job of the task is made for
\* its first job; the edge to the job starts at the local sfNodeName.
WfInit(w, sc, gname, nodename, taskAbbrev, qNodeName, qlfn) ==
    LET w1 == IF taskAbbrev \in DOMAIN w.init_nodes THEN w
              ELSE WfNewInit(w, sc, gname, nodename, taskAbbrev, qNodeName, qlfn)
    IN  [w1 EXCEPT !.g = AddEdge(@, w1.sfNodeName, nodename)]

\* A TaskNode of the science graph
WfTask(w, cfg, sc, qgnodes, gname, nodename) ==
    LET taskAbbrev == w.g.attr[nodename].taskAbbrev
        g1 == AddNode(w.g, nodename, [job_attrib |-> [bps_jobabbrev |-> taskAbbrev]])
        taskcnts1 == (taskAbbrev :> (Get(w.taskcnts, taskAbbrev, 0) + 1)) @@ w.taskcnts
        ncnt1 == w.ncnt + 1
        qNodeName == NodeName(ncnt1)
        qlfn == Qlfn(nodename)
        parts == <<submitPath, "input", Str(taskAbbrev), qlfn>>
        qFileName == PathJoin(parts)
        lfn == Basename(parts)
        g2 == AddNode(g1, qNodeName,
                      [nodeType |-> FILENODE, lfn |-> lfn, label |-> lfn,
                       pfn |-> qFileName, ignore |-> FALSE, data_type |-> "quantum"])
        g3 == _updateTask(g2, sc, taskAbbrev, nodename, qlfn)
        g4 == AddEdge(g3, qNodeName, nodename)
        w1 == [w EXCEPT !.g = g4, !.ncnt = ncnt1, !.qcnt = @ + 1,
                        !.taskcnts = taskcnts1,
                        !.writes = save_single_qgnode(@, qgnodes[nodename], qFileName)]
    IN  IF cfg.runInit THEN WfInit(w1, sc, gname, nodename, taskAbbrev, qNodeName, qlfn)
        ELSE w1

\* One node of nodelist
WfNode(w, cfg, sc, qgnodes, gname, nodename) ==
    LET node == w.g.attr[nodename]
    IN  IF node.nodeType = FILENODE
        THEN [w EXCEPT !.g = AddNode(@, nodename,
                  [lfn |-> nodename, ignore |-> TRUE, data_type |-> "science"])]
        ELSE IF node.nodeType = TASKNODE
        THEN WfTask(w, cfg, sc, qgnodes, gname, nodename)
        ELSE [w EXCEPT !.err = "ValueError"]

RECURSIVE WfLoop(_, _, _, _, _, _)
\* for nodename in nodelist
WfLoop(w, cfg, sc, qgnodes, gname, nodelist) ==
    IF nodelist = <<>> \/ w.err # None THEN w
    ELSE WfLoop(WfNode(w, cfg, sc, qgnodes, gname, Head(nodelist)),
                cfg, sc, qgnodes, gname, Tail(nodelist))

\* ------------------------------------------------------------------------
\* BpsCore._link_init_nodes

RECURSIVE LinkFrom(_, _, _, _)
\* The loop from index abbrevId (0-based) on; a label without init nodes is
\* a KeyError. The result is [g, err].
LinkFrom(g, init_nodes, taskAbbrevList, abbrevId) ==
    IF abbrevId >= Len(taskAbbrevList) THEN [g |-> g, err |-> None]
    ELSE IF abbrevId = 0 THEN LinkFrom(g, init_nodes, taskAbbrevList, abbrevId + 1)
    ELSE LET taskAbbrev == taskAbbrevList[abbrevId + 1]
             prevAbbrev == taskAbbrevList[abbrevId]
         IN  IF taskAbbrev \notin DOMAIN init_nodes \/ prevAbbrev \notin DOMAIN init_nodes
             THEN [g |-> g, err |-> "KeyError"]
             ELSE LET stNodeName == init_nodes[taskAbbrev][TASKNODE]
                      sfNodeName == init_nodes[prevAbbrev][FILENODE]
                  IN  IF ~HasNode(g, stNodeName) \/ ~HasNode(g, sfNodeName)
                      THEN [g |-> g, err |-> "KeyError"]
                      ELSE LinkFrom(AddEdge(g, sfNodeName, stNodeName), init_nodes,
                                    taskAbbrevList, abbrevId + 1)

_link_init_nodes(g, init_nodes, pipeline) ==
    LinkFrom(g, init_nodes, StripAll(pipeline), 0)

\* ------------------------------------------------------------------------
\* BpsCore._createWorkflowGraph: the run summary

RECURSIVE SummaryFrom(_, _, _)
\* runSummary entries <<label, count>> of the labels from index i on, or
\* "KeyError" when a label has no count.
SummaryFrom(taskcnts, labels, i) ==
    IF i > Len(labels) THEN <<>>
    ELSE IF labels[i] \notin DOMAIN taskcnts THEN "KeyError"
    ELSE LET rest == SummaryFrom(taskcnts, labels, i + 1)
         IN  IF rest = "KeyError" THEN rest
             ELSE <<[label |-> labels[i], count |-> taskcnts[labels[i]]]>> \o rest

RECURSIVE JoinSummary(_)
\* ";".join("%s:%d" % (taskAbbrev, count))
JoinSummary(entries) ==
    IF entries = <<>> THEN ""
    ELSE LET e == Str(entries[1].label) \o ":" \o DecStr(entries[1].count)
         IN  IF Len(entries) = 1 THEN e ELSE e \o ";" \o JoinSummary(Tail(entries))

\* ------------------------------------------------------------------------
\* GenericWorkflow (generic_workflow.py): named jobs in insertion order, each
\* with its attribute payload, and the edges in listing order

\* Largest number of add_job_relationships calls on one workflow.
MaxCalls == 1

\* Names of the jobs, in the order in which new jobs are added.
JobNames == <<"job1", "job2", "job3">>
JobData == {"d1", "d2"}
Formats == {"pickle", "badformat"}

NewWorkflow(name) == [name |-> name, jobs |-> <<>>, data |-> <<>>, edges |-> <<>>]

InSeq(x, s) == \E i \in 1..Len(s) : s[i] = x

\* The name is not looked up before the job is inserted
add_job_NoCheck(g, name, data) ==
    [gwf |-> [g EXCEPT !.jobs = Append(@, name), !.data = (name :> data) @@ @],
     result |-> "ok"]

\* add_job(job): DuplicateJob when the name is present, otherwise the job is
\* inserted as an isolated node. The result is [gwf, result].
add_job(g, name, data) ==
    IF InSeq(name, g.jobs)
    THEN [gwf |-> g, result |-> "DuplicateJob"]
    ELSE [gwf |-> [g EXCEPT !.jobs = Append(@, name), !.data = (name :> data) @@ @],
          result |-> "ok"]

\* One side of add_job_relationships: no job, a single name, or a sequence.
NoJob == [kind |-> "none"]
OneJob(n) == [kind |-> "name", val |-> n]
JobList(ns) == [kind |-> "list", val |-> ns]

\* The names a side stands for, in order
Iterable(side) == IF side.kind = "name" THEN <<side.val>> ELSE side.val

RECURSIVE ProductRow(_, _)
\* <<p, c>> for every c of children, in order
ProductRow(p, children) ==
    IF children = <<>> THEN <<>>
    ELSE <<<<p, Head(children)>>>> \o ProductRow(p, Tail(children))

RECURSIVE Product_ChildrenOuter(_, _)
\* The Cartesian product with the children in the outer loop
Product_ChildrenOuter(parents, children) ==
    IF children = <<>> THEN <<>>
    ELSE [i \in 1..Len(parents) |-> <<parents[i], Head(children)>>]
             \o Product_ChildrenOuter(parents, Tail(children))

RECURSIVE Product(_, _)
\* The Cartesian product, parents outer, children inner
Product(parents, children) ==
    IF parents = <<>> THEN <<>>
    ELSE ProductRow(Head(parents), children) \o Product(Tail(parents), children)

RECURSIVE AddEdgesFrom(_, _)
\* Every pair becomes an edge; an edge that exists is not added again
AddEdgesFrom(edges, pairs) ==
    IF pairs = <<>> THEN edges
    ELSE AddEdgesFrom(IF InSeq(Head(pairs), edges) THEN edges ELSE Append(edges, Head(pairs)),
                      Tail(pairs))

\* add_job_relationships(parents, children): skipped when a side is no job
add_job_relationships(g, parents, children) ==
    IF parents.kind = "none" \/ children.kind = "none" THEN g
    ELSE [g EXCEPT !.edges = AddEdgesFrom(@, Product(Iterable(parents), Iterable(children)))]

RECURSIVE EncodeJobs(_, _)
EncodeJobs(jobs, data) ==
    IF jobs = <<>> THEN <<>>
    ELSE <<Head(jobs), data[Head(jobs)]>> \o EncodeJobs(Tail(jobs), data)

RECURSIVE EncodeEdges(_)
EncodeEdges(edges) ==
    IF edges = <<>> THEN <<>>
    ELSE <<Head(edges)[1], Head(edges)[2]>> \o EncodeEdges(Tail(edges))

\* The default codec: the workflow as one flat stream of
\* name, number of jobs, (job, payload)*, number of edges, (parent, child)*
Encode(g) ==
    <<g.name, Len(g.jobs)>> \o EncodeJobs(g.jobs, g.data)
        \o <<Len(g.edges)>> \o EncodeEdges(g.edges)

RECURSIVE DecodeJobs_NoPayload(_, _, _, _)
\* The payload of a job is skipped, not restored
DecodeJobs_NoPayload(stream, i, n, g) ==
    IF n = 0 THEN g
    ELSE DecodeJobs_NoPayload(stream, i + 2, n - 1,
                    [g EXCEPT !.jobs = Append(@, stream[i]),
                              !.data = (stream[i] :> None) @@ @])

RECURSIVE DecodeJobs(_, _, _, _)
\* n jobs read from position i of the stream into the workflow g
DecodeJobs(stream, i, n, g) ==
    IF n = 0 THEN g
    ELSE DecodeJobs(stream, i + 2, n - 1,
                    [g EXCEPT !.jobs = Append(@, stream[i]),
                              !.data = (stream[i] :> stream[i + 1]) @@ @])

RECURSIVE DecodeEdges(_, _, _, _)
DecodeEdges(stream, i, n, g) ==
    IF n = 0 THEN g
    ELSE DecodeEdges(stream, i + 2, n - 1,
                     [g EXCEPT !.edges = Append(@, <<stream[i], stream[i + 1]>>)])

Decode(stream) ==
    LET njobs == stream[2]
        g1 == DecodeJobs(stream, 3, njobs, NewWorkflow(stream[1]))
        nedges == stream[3 + 2 * njobs]
    IN  DecodeEdges(stream, 4 + 2 * njobs, nedges, g1)

\* save(stream, format): the codec of the registry, or UnsupportedFormat.
\* The result is [stream, result].
save(g, format) ==
    IF format = "pickle" THEN [stream |-> Encode(g), result |-> "ok"]
    ELSE [stream |-> <<>>, result |-> "UnsupportedFormat"]

\* load(stream, format)
load(stream, format) ==
    IF format = "pickle" THEN [gwf |-> Decode(stream), result |-> "ok"]
    ELSE [gwf |-> Unset, result |-> "UnsupportedFormat"]

\* ------------------------------------------------------------------------
\* State

VARIABLES
    cfg,          \* self.config: the settings createSubmission reads
    qgraphFile,   \* the QuantumGraph in the pickle file (given, or generated)
    pc,           \* position in createSubmission
    error,        \* the exception that ended createSubmission, or None
    returncode,   \* <<exit code>> of the QuantumGraph generation, <<>> if not run
    qgraph,       \* <<self.qgraph>>, <<>> before it is read
    sci,          \* _createScienceGraph: self.sciGraph (g), self.qgnodes, locals
    pipeline,     \* self.pipeline
    wf,           \* _createWorkflowGraph: self.genWFGraph (g), locals, files written
    implemented,  \* the graphs handed to implementWorkflow
    gwf,          \* a GenericWorkflow under construction
    gwLast,       \* the last call on gwf: its operation, arguments and result
    relCalls,     \* number of add_job_relationships calls made on gwf
    stream,       \* the stream gwf was saved to, <<>> before
    loaded,       \* the GenericWorkflow loaded from stream, Unset before
    site,         \* self.config: the compute site's settings and the requests
    tnode         \* the attributes of a node _updateTask was called on, Unset before

bpsVars == <<cfg, qgraphFile, pc, error, returncode, qgraph, sci, pipeline, wf, implemented>>
gwVars == <<gwf, gwLast, relCalls, stream, loaded>>
utVars == <<site, tnode>>
vars == <<bpsVars, gwVars, utVars>>

gname == "uniqProcName"

UtInit ==
    /\ site = SiteConfig
    /\ tnode = Unset

GwInit ==
    /\ gwf = NewWorkflow("mytest")
    /\ gwLast = [op |-> "new", result |-> "ok"]
    /\ relCalls = 0
    /\ stream = <<>>
    /\ loaded = Unset

Init ==
    /\ GwInit
    /\ UtInit
    /\ cfg \in Configs
    /\ qgraphFile \in QGraphs
    /\ pc = "start"
    /\ error = NoError
    /\ returncode = <<>>
    /\ qgraph = <<>>
    /\ sci = Unset
    /\ pipeline = <<>>
    /\ wf = Unset
    /\ implemented = <<>>

\* BpsCore._readQuantumGraph: the next position and the error
ReadResult(g) ==
    IF countQuantum(g) = 0
    THEN [pc |-> "error",
          error |-> Raised("RuntimeError: QuantumGraph is empty", "_readQuantumGraph")]
    ELSE [pc |-> "sci", error |-> NoError]

\* createSubmission with global.qgraph_file: copy the file, _readQuantumGraph
ReadQuantumGraph ==
    /\ pc = "start"
    /\ cfg.qgraph_file
    /\ qgraph' = <<qgraphFile>>
    /\ pc' = ReadResult(qgraphFile).pc
    /\ error' = ReadResult(qgraphFile).error
    /\ UNCHANGED <<gwVars, utVars, cfg, qgraphFile, returncode, sci, pipeline, wf, implemented>>

\* _createQuantumGraph: run the generator, wait for it; a non-zero exit code
\* is a RuntimeError, otherwise _readQuantumGraph
CreateQuantumGraphResult_IgnoreExit(rc, g) ==
    [pc |-> ReadResult(g).pc, error |-> ReadResult(g).error, qgraph |-> <<g>>]

CreateQuantumGraphResult(rc, g) ==
    IF rc # 0
    THEN [pc |-> "error",
          error |-> Raised("RuntimeError: QuantumGraph generation exited with non-zero exit code",
                           "_createQuantumGraph"),
          qgraph |-> <<>>]
    ELSE [pc |-> ReadResult(g).pc, error |-> ReadResult(g).error, qgraph |-> <<g>>]

CreateQuantumGraph ==
    /\ pc = "start"
    /\ ~cfg.qgraph_file
    /\ \E rc \in {0, 1} :
        /\ returncode' = <<rc>>
        /\ qgraph' = CreateQuantumGraphResult(rc, qgraphFile).qgraph
        /\ pc' = CreateQuantumGraphResult(rc, qgraphFile).pc
        /\ error' = CreateQuantumGraphResult(rc, qgraphFile).error
    /\ UNCHANGED <<gwVars, utVars, cfg, qgraphFile, sci, pipeline, wf, implemented>>

\* _createGenericWorkflow: _createScienceGraph
CreateScienceGraph ==
    /\ pc = "sci"
    /\ sci' = SciTasks(SciStart, qgraph[1], 0)
    /\ pipeline' = SciPipeline(cfg, sci'.pipeline)
    /\ pc' = "wf"
    /\ UNCHANGED <<gwVars, utVars, cfg, qgraphFile, error, returncode, qgraph, wf, implemented>>

\* _createWorkflowGraph up to the end of the loop over the nodes
CreateWorkflowGraphNodes ==
    /\ pc = "wf"
    /\ wf' = WfLoop(WfStart(sci.g, gname), cfg, site, sci.qgnodes, gname, sci.g.names)
    /\ pc' = IF wf'.err # None THEN "error" ELSE IF cfg.runInit THEN "link" ELSE "summary"
    /\ error' = IF wf'.err # None THEN Raised(wf'.err, "_createWorkflowGraph") ELSE NoError
    /\ UNCHANGED <<gwVars, utVars, cfg, qgraphFile, returncode, qgraph, sci, pipeline, implemented>>

\* _createWorkflowGraph: if runInit, self._link_init_nodes(init_nodes)
LinkInitNodes ==
    /\ pc = "link"
    /\ LET r == _link_init_nodes(wf.g, wf.init_nodes, pipeline)
       IN  /\ wf' = [wf EXCEPT !.g = r.g, !.err = r.err]
           /\ pc' = IF r.err # None THEN "error" ELSE "summary"
           /\ error' = IF r.err # None THEN Raised(r.err, "_link_init_nodes") ELSE NoError
    /\ UNCHANGED <<gwVars, utVars, cfg, qgraphFile, returncode, qgraph, sci, pipeline, implemented>>

\* _createWorkflowGraph: the run summary and the graph attributes
RunSummary ==
    /\ pc = "summary"
    /\ LET entries == SummaryFrom(wf.taskcnts, StripAll(pipeline), 1)
       IN  IF entries = "KeyError"
           THEN /\ wf' = [wf EXCEPT !.err = "KeyError"]
                /\ pc' = "error"
                /\ error' = Raised("KeyError", "_createWorkflowGraph")
           ELSE /\ wf' = [wf EXCEPT !.g.graph =
                            ("run_attrib" :> [bps_run_summary |-> JoinSummary(entries),
                                             bps_isjob |-> "True", bps_run |-> gname,
                                             bps_runsite |-> "TODO"]) @@ @]
                /\ pc' = "wfconfig"
                /\ error' = NoError
    /\ UNCHANGED <<gwVars, utVars, cfg, qgraphFile, returncode, qgraph, sci, pipeline, implemented>>

\* _createGenericWorkflowConfig
CreateGenericWorkflowConfig ==
    /\ pc = "wfconfig"
    /\ pc' = "implement"
    /\ UNCHANGED <<gwVars, utVars, cfg, qgraphFile, error, returncode, qgraph, sci, pipeline, wf, implemented>>

\* _implement_workflow: workflow_engine.implementWorkflow(self.genWFGraph)
ImplementWorkflow ==
    /\ pc = "implement"
    /\ implemented' = Append(implemented, wf.g)
    /\ pc' = "done"
    /\ UNCHANGED <<gwVars, utVars, cfg, qgraphFile, error, returncode, qgraph, sci, pipeline, wf>>

Next ==
    \/ ReadQuantumGraph
    \/ CreateQuantumGraph
    \/ CreateScienceGraph
    \/ CreateWorkflowGraphNodes
    \/ LinkInitNodes
    \/ RunSummary
    \/ CreateGenericWorkflowConfig
    \/ ImplementWorkflow

Spec == Init /\ [][Next]_vars

\* ------------------------------------------------------------------------
\* GenericWorkflow: calls on one workflow, which is built, saved and loaded

\* The sides a call may name: no job, a job of the workflow, or a sequence of
\* one or two of its jobs
Sides(g) ==
    LET J == {g.jobs[i] : i \in 1..Len(g.jobs)}
    IN  {NoJob} \cup {OneJob(n) : n \in J}
            \cup {JobList(<<n>>) : n \in J}
            \cup {JobList(<<n, m>>) : <<n, m>> \in {q \in J \X J : q[1] # q[2]}}

\* The names add_job is called with: a name that is present, or the next new
\* one
AddableNames(g) ==
    {JobNames[i] : i \in 1..(IF Len(g.jobs) < Len(JobNames) THEN Len(g.jobs) + 1
                             ELSE Len(JobNames))}

InitGW ==
    /\ GwInit
    /\ UtInit
    /\ cfg = [qgraph_file |-> TRUE, runInit |-> FALSE, pipeline |-> None]
    /\ qgraphFile = <<>>
    /\ pc = "idle"
    /\ error = NoError
    /\ returncode = <<>>
    /\ qgraph = <<>>
    /\ sci = Unset
    /\ pipeline = <<>>
    /\ wf = Unset
    /\ implemented = <<>>

AddJob ==
    /\ stream = <<>>
    /\ \E n \in AddableNames(gwf), d \in JobData :
        /\ gwf' = add_job(gwf, n, d).gwf
        /\ gwLast' = [op |-> "add_job", name |-> n, result |-> add_job(gwf, n, d).result]
    /\ UNCHANGED <<bpsVars, utVars, relCalls, stream, loaded>>

AddJobRelationships ==
    /\ stream = <<>>
    /\ relCalls < MaxCalls
    /\ \E p \in Sides(gwf), c \in Sides(gwf) :
        /\ gwf' = add_job_relationships(gwf, p, c)
        /\ gwLast' = [op |-> "add_job_relationships", parents |-> p, children |-> c,
                      result |-> "ok"]
    /\ relCalls' = relCalls + 1
    /\ UNCHANGED <<bpsVars, utVars, stream, loaded>>

Save ==
    /\ stream = <<>>
    /\ \E f \in Formats :
        /\ stream' = save(gwf, f).stream
        /\ gwLast' = [op |-> "save", format |-> f, result |-> save(gwf, f).result]
    /\ UNCHANGED <<bpsVars, utVars, gwf, relCalls, loaded>>

Load ==
    /\ stream # <<>>
    /\ loaded = Unset
    /\ loaded' = load(stream, "pickle").gwf
    /\ gwLast' = [op |-> "load", format |-> "pickle", result |-> load(stream, "pickle").result]
    /\ UNCHANGED <<bpsVars, utVars, gwf, relCalls, stream>>

NextGW ==
    \/ AddJob
    \/ AddJobRelationships
    \/ Save
    \/ Load

SpecGW == InitGW /\ [][NextGW]_vars

\* ------------------------------------------------------------------------
\* _updateTask: one call on a TaskNode, under any of the site configurations

\* The task names _updateTask is called with: a label, or pipetask_init
UpdateTaskNames == Range(TaskLabels) \cup {<<"pipetask_init">>}

InitUT ==
    /\ GwInit
    /\ site \in SiteConfigs
    /\ tnode = Unset
    /\ cfg = [qgraph_file |-> TRUE, runInit |-> FALSE, pipeline |-> None]
    /\ qgraphFile = <<>>
    /\ pc = "idle"
    /\ error = NoError
    /\ returncode = <<>>
    /\ qgraph = <<>>
    /\ sci = Unset
    /\ pipeline = <<>>
    /\ wf = Unset
    /\ implemented = <<>>

UpdateTask ==
    /\ tnode = Unset
    /\ \E taskAbbrev \in UpdateTaskNames :
        LET tnodeName == NodeName(1)
            g == AddNode(EmptyGraph, tnodeName,
                         [nodeType |-> TASKNODE, taskAbbrev |-> taskAbbrev])
        IN  tnode' = _updateTask(g, site, taskAbbrev, tnodeName, Qlfn(tnodeName)).attr[tnodeName]
    /\ UNCHANGED <<bpsVars, gwVars, site>>

NextUT == UpdateTask

SpecUT == InitUT /\ [][NextUT]_vars

\* ------------------------------------------------------------------------
\* Properties of the science graph

\* The positions <<group, index>> of the quanta of a QuantumGraph
QuantaOf(g) == {p \in (DOMAIN g) \X (1..MaxQuanta) : p[2] <= Len(g[p[1]].quanta)}

\* The dataset references of a quantum, of a QuantumGraph
RefsOfQuantum(q) == Range(q.predictedInputs) \cup Range(q.outputs)
RefsOfQGraph(g) == UNION {RefsOfQuantum(g[p[1]].quanta[p[2]]) : p \in QuantaOf(g)}

\* The FileNode the builder mapped the reference r to
FileNodeOf(r) == NodeName(sci.mapId[DsName(r)])

\* The quantum of a TaskNode of the science graph
QuantumOf(t) == sci.qgnodes[t].quanta[1]

\* C1: after _createScienceGraph the FileNodes are as many as the distinct
\* (dataset type, dataId) pairs among the inputs and outputs of all quanta;
\* every reference, input or output and of whichever quantum, is joined to
\* its TaskNode through the one FileNode of its pair, and different pairs
\* have different FileNodes.
C1_DedupFileNodes ==
    IsSet(sci) =>
        LET refs == RefsOfQGraph(qgraph[1])
            tasks == NodesOfType(sci.g, TASKNODE)
        IN  /\ Cardinality(NodesOfType(sci.g, FILENODE)) = Cardinality(refs)
            /\ \A r1 \in refs, r2 \in refs : (FileNodeOf(r1) = FileNodeOf(r2)) <=> (r1 = r2)
            /\ \A r \in refs : FileNodeOf(r) \in NodesOfType(sci.g, FILENODE)
            /\ \A t \in tasks :
                /\ \A r \in Range(QuantumOf(t).predictedInputs) :
                       <<FileNodeOf(r), t>> \in sci.g.edges
                /\ \A r \in Range(QuantumOf(t).outputs) :
                       <<t, FileNodeOf(r)>> \in sci.g.edges

\* A science graph in which one reference is the output of one quantum and
\* the input of another, next to a reference of the same type with another
\* dataId and one of another type with the same dataId.
C1_Witness ==
    /\ IsSet(sci)
    /\ {raw1, raw2, cal1} \subseteq RefsOfQGraph(qgraph[1])
    /\ \E t1 \in NodesOfType(sci.g, TASKNODE), t2 \in NodesOfType(sci.g, TASKNODE) :
        /\ t1 # t2
        /\ \E r \in Range(QuantumOf(t1).outputs) : r \in Range(QuantumOf(t2).predictedInputs)

\* ------------------------------------------------------------------------
\* Properties of the workflow graph

Labels == Range(TaskLabels)

\* The TaskNodes that came from the science graph (the ordinary jobs)
JobNodes == NodesOfType(sci.g, TASKNODE)
JobNodesOf(L) == {n \in JobNodes : sci.g.attr[n].taskAbbrev = L}

\* The init TaskNodes and init-output FileNodes of label L in the workflow
\* graph, recognised by their attributes
InitTasks(L) ==
    {n \in NodesOfType(wf.g, TASKNODE) :
        /\ HasAttr(wf.g, n, "job_attrib")
        /\ "bps_isjob" \in DOMAIN wf.g.attr[n].job_attrib
        /\ wf.g.attr[n].taskAbbrev = L}
InitOutputFiles(L) ==
    {n \in NodesOfType(wf.g, FILENODE) :
        /\ HasAttr(wf.g, n, "data_type")
        /\ wf.g.attr[n].data_type = Str(L) \o "_init"}

\* C2: with runInit, after the loop of _createWorkflowGraph every ordinary job
\* of a label has an edge from the init-output FileNode of its own label and
\* from no init-output FileNode of another label.
C2_JobsDependOnOwnInit ==
    (cfg.runInit /\ IsSet(wf)) =>
        \A n \in JobNodes :
            LET L == sci.g.attr[n].taskAbbrev
            IN  /\ \E f \in InitOutputFiles(L) : <<f, n>> \in wf.g.edges
                /\ \A L2 \in Labels \ {L} :
                       \A f \in InitOutputFiles(L2) : <<f, n>> \notin wf.g.edges

\* Two labels with jobs, where a label after the first has two jobs, so that
\* its second job reuses the cached init nodes.
C2_Witness ==
    /\ cfg.runInit /\ IsSet(wf)
    /\ JobNodesOf(TaskLabels[1]) # {}
    /\ Cardinality(JobNodesOf(TaskLabels[2])) >= 2
    /\ \A n \in JobNodesOf(TaskLabels[2]) :
           \E f \in InitOutputFiles(TaskLabels[2]) : <<f, n>> \in wf.g.edges

\* C3: with runInit, after the loop of _createWorkflowGraph a label with at
\* least one job has exactly one init TaskNode and one init-output FileNode,
\* the pair recorded in init_nodes; a label without jobs has none.
C3_OneInitPerLabel ==
    (cfg.runInit /\ IsSet(wf)) =>
        \A L \in Labels :
            IF JobNodesOf(L) # {}
            THEN /\ L \in DOMAIN wf.init_nodes
                 /\ InitTasks(L) = {wf.init_nodes[L][TASKNODE]}
                 /\ InitOutputFiles(L) = {wf.init_nodes[L][FILENODE]}
            ELSE /\ L \notin DOMAIN wf.init_nodes
                 /\ InitTasks(L) = {}
                 /\ InitOutputFiles(L) = {}

\* A label with three jobs and its single pair of init nodes.
C3_Witness ==
    /\ cfg.runInit /\ IsSet(wf)
    /\ \E L \in Labels :
        /\ Cardinality(JobNodesOf(L)) >= 3
        /\ Cardinality(InitTasks(L)) = 1
        /\ Cardinality(InitOutputFiles(L)) = 1

\* Every endpoint of every edge of g is a node with a node type
NoDanglingEdges(g) ==
    \A e \in g.edges :
        \A k \in 1..2 :
            /\ HasAttr(g, e[k], "nodeType")
            /\ g.attr[e[k]].nodeType \in {TASKNODE, FILENODE}

\* C9: every endpoint of every edge of the science graph and of the workflow
\* graph, at the end of the loop, of _link_init_nodes and of
\* _createWorkflowGraph, is a node that was added with a node type.
C9_NoDanglingEdges ==
    /\ IsSet(sci) => NoDanglingEdges(sci.g)
    /\ IsSet(wf) => NoDanglingEdges(wf.g)

\* A finished workflow graph with quantum-file, init and init-chain edges.
C9_Witness ==
    /\ pc = "done"
    /\ cfg.runInit
    /\ \E L1 \in Labels, L2 \in Labels :
        /\ L1 # L2
        /\ \E f \in InitOutputFiles(L1), t \in InitTasks(L2) : <<f, t>> \in wf.g.edges
    /\ \E e \in wf.g.edges :
        HasAttr(wf.g, e[1], "data_type") /\ wf.g.attr[e[1]].data_type = "quantum"

\* The edges of the workflow graph at the end of the loop over the nodes
LoopEdges == WfLoop(WfStart(sci.g, gname), cfg, site, sci.qgnodes, gname, sci.g.names).g.edges

\* _link_init_nodes has ended: it returned or raised
LinkEnded == cfg.runInit /\ IsSet(wf) /\ pc # "link"

\* The init-chain edge of position i of the pipeline order L
ChainEdge(L, i) == <<wf.init_nodes[L[i - 1]][FILENODE], wf.init_nodes[L[i]][TASKNODE]>>

\* C4: with runInit, _link_init_nodes returns without an error for every
\* non-empty QuantumGraph and every pipeline order L, derived or configured;
\* the edges it adds are exactly those from the init-output FileNode of
\* L[i-1] to the init TaskNode of L[i], for every i in 1..n-1.
C4_LinkChainsInitJobs ==
    LinkEnded =>
        LET L == StripAll(pipeline)
        IN  /\ error.at # "_link_init_nodes"
            /\ \A i \in 2..Len(L) :
                /\ {L[i - 1], L[i]} \subseteq DOMAIN wf.init_nodes
                /\ ChainEdge(L, i) \in wf.g.edges
            /\ wf.g.edges \ LoopEdges = {ChainEdge(L, i) : i \in 2..Len(L)}

\* ------------------------------------------------------------------------
\* Properties of createSubmission

\* C5: once the QuantumGraph file has been read, by either path, a graph
\* whose quanta number zero has ended createSubmission with the empty-graph
\* error; no science graph and no workflow graph exist, no quantum file was
\* written and nothing was handed to the backend.
C5_EmptyPlanRejected ==
    (pc # "start" /\ returncode # <<1>> /\ QuantaOf(qgraphFile) = {}) =>
        /\ pc = "error"
        /\ error = Raised("RuntimeError: QuantumGraph is empty", "_readQuantumGraph")
        /\ ~IsSet(sci)
        /\ ~IsSet(wf)
        /\ implemented = <<>>

\* A generated QuantumGraph with task groups and no quantum was rejected.
C5_Witness ==
    /\ pc = "error"
    /\ error.at = "_readQuantumGraph"
    /\ returncode = <<0>>
    /\ Len(qgraphFile) >= 2
    /\ QuantaOf(qgraphFile) = {}

\* What holds once a graph has been handed to implementWorkflow
BackendPrecondition ==
    /\ ~cfg.qgraph_file => returncode = <<0>>
    /\ qgraph # <<>>
    /\ QuantaOf(qgraph[1]) # {}
    /\ IsSet(sci)
    /\ Cardinality(JobNodes) = Cardinality(QuantaOf(qgraph[1]))
    /\ IsSet(wf)
    /\ Len(wf.writes) = Cardinality(JobNodes)
    /\ cfg.runInit =>
           \A i \in 2..Len(pipeline) : ChainEdge(StripAll(pipeline), i) \in wf.g.edges
    /\ "run_attrib" \in DOMAIN wf.g.graph
    /\ error = NoError
    /\ implemented = <<wf.g>>

\* C10: implementWorkflow is called only from the last position of
\* createSubmission, when the generator (if used) has exited with 0, the
\* QuantumGraph was read and is not empty, and the science graph and the
\* workflow graph are complete; after an error of any stage createSubmission
\* takes no further step and the backend has not been called.
C10_BackendAfterAllStages ==
    /\ [](implemented # <<>> => BackendPrecondition)
    /\ [](error # NoError => (pc = "error" /\ implemented = <<>>))
    /\ [][pc # "error" /\ (implemented' # implemented => pc = "implement")]_vars

\* The backend was called after a generator run, with init jobs in the graph.
C10_Witness ==
    /\ pc = "done"
    /\ returncode = <<0>>
    /\ cfg.runInit
    /\ Len(implemented) = 1
    /\ Cardinality(JobNodes) >= 2

\* ------------------------------------------------------------------------
\* Properties of GenericWorkflow

NoDuplicates(s) == \A i \in 1..Len(s), j \in 1..Len(s) : s[i] = s[j] => i = j

\* C6: add_job of a name that is present fails with DuplicateJob and leaves
\* the workflow as it was; add_job of a new name appends the job; at all
\* times no two jobs of the workflow share a name.
C6_DuplicateJobRejected ==
    /\ [](NoDuplicates(gwf.jobs))
    /\ [][gwLast'.op = "add_job" =>
            IF InSeq(gwLast'.name, gwf.jobs)
            THEN gwLast'.result = "DuplicateJob" /\ gwf' = gwf
            ELSE /\ gwLast'.result = "ok"
                 /\ gwf'.jobs = Append(gwf.jobs, gwLast'.name)
                 /\ gwf'.edges = gwf.edges]_vars

\* A duplicate add_job was refused on a workflow with jobs and edges.
C6_Witness ==
    /\ gwLast.op = "add_job"
    /\ gwLast.result = "DuplicateJob"
    /\ Len(gwf.jobs) >= 2
    /\ gwf.edges # <<>>

\* Position of x in the sequence s without duplicates
IndexOf(x, s) == CHOOSE i \in 1..Len(s) : s[i] = x

\* C7: add_job_relationships(parents, children) with a side that is no job
\* leaves the workflow unchanged; otherwise the edges are the old ones,
\* followed by the pairs of the Cartesian product that were not edges yet,
\* each once, parents in outer and children in inner order.
C7_RelationshipsAreProduct ==
    [][gwLast'.op = "add_job_relationships" =>
        IF gwLast'.parents.kind = "none" \/ gwLast'.children.kind = "none"
        THEN gwf' = gwf
        ELSE LET P == Iterable(gwLast'.parents)
                 C == Iterable(gwLast'.children)
                 old == Len(gwf.edges)
                 new == gwf'.edges
             IN  /\ SubSeq(new, 1, old) = gwf.edges
                 /\ NoDuplicates(new)
                 /\ Range(new) = Range(gwf.edges) \cup (Range(P) \X Range(C))
                 /\ \A i \in (old + 1)..Len(new), j \in (old + 1)..Len(new) :
                        i < j =>
                            \/ IndexOf(new[i][1], P) < IndexOf(new[j][1], P)
                            \/ /\ new[i][1] = new[j][1]
                               /\ IndexOf(new[i][2], C) < IndexOf(new[j][2], C)
                 /\ gwf'.jobs = gwf.jobs]_vars

\* Two parents and two children gave four edges.
C7_Witness ==
    /\ gwLast.op = "add_job_relationships"
    /\ gwLast.parents.kind = "list" /\ Len(gwLast.parents.val) = 2
    /\ gwLast.children.kind = "list" /\ Len(gwLast.children.val) = 2
    /\ Len(gwf.edges) = 4

\* C8: the workflow loaded from the stream that save wrote with the default
\* codec has the jobs, the edges and the payload of every job of the saved
\* workflow; save with a format outside the registry fails with
\* UnsupportedFormat and writes nothing.
C8_SaveLoadRoundTrip ==
    /\ IsSet(loaded) =>
        /\ Range(loaded.jobs) = Range(gwf.jobs)
        /\ Range(loaded.edges) = Range(gwf.edges)
        /\ \A n \in Range(gwf.jobs) : loaded.data[n] = gwf.data[n]
    /\ (gwLast.op = "save" /\ gwLast.format # "pickle") =>
        /\ gwLast.result = "UnsupportedFormat"
        /\ stream = <<>>
    /\ (gwLast.op = "save" /\ gwLast.format = "pickle") =>
        /\ gwLast.result = "ok"
        /\ stream # <<>>

\* A workflow of jobs with different payloads and an edge was loaded back.
C8_Witness ==
    /\ IsSet(loaded)
    /\ Len(gwf.jobs) >= 2
    /\ gwf.data[gwf.jobs[1]] # gwf.data[gwf.jobs[2]]
    /\ gwf.edges # <<>>

\* ------------------------------------------------------------------------
\* Properties of the run summary

\* _createWorkflowGraph has ended: it returned or raised
WorkflowGraphEnded == IsSet(wf) /\ pc \notin {"wf", "link", "summary"}

\* The job TaskNodes of label L in the workflow graph, init job included
TaskNodesOf(L) ==
    {n \in NodesOfType(wf.g, TASKNODE) : wf.g.attr[n].taskAbbrev = L}

\* The run summary with one entry per label of the order L, in that order,
\* each with the number of the label's TaskNodes
SummaryOfGraph(L) ==
    JoinSummary([i \in 1..Len(L) |->
                    [label |-> L[i], count |-> Cardinality(TaskNodesOf(L[i]))]])

\* C11: for every non-empty QuantumGraph and every pipeline order, derived or
\* configured, _createWorkflowGraph returns without an error and the graph
\* carries a run summary with one entry per label of the order, in that
\* order, whose count is the number of TaskNodes of the label.
C11_RunSummaryPerLabel ==
    WorkflowGraphEnded =>
        /\ error = NoError
        /\ "run_attrib" \in DOMAIN wf.g.graph
        /\ wf.g.graph.run_attrib.bps_run_summary = SummaryOfGraph(StripAll(pipeline))

\* ------------------------------------------------------------------------
\* Properties of the quantum files

\* <submitPath>/input/<label>/quantum<node name>.pickle of the job n
QuantumFilePath(n) ==
    "submit/input/" \o Str(sci.g.attr[n].taskAbbrev) \o "/quantum" \o n \o ".pickle"

\* The writes made to the path p
WritesTo(p) == {i \in 1..Len(wf.writes) : wf.writes[i].path = p}

\* The quantum-file FileNodes of the workflow graph, and those with an edge
\* to the node n
QuantumFileNodes ==
    {f \in NodesOfType(wf.g, FILENODE) :
        HasAttr(wf.g, f, "data_type") /\ wf.g.attr[f].data_type = "quantum"}
QuantumFileNodesOf(n) == {f \in QuantumFileNodes : <<f, n>> \in wf.g.edges}

\* C12: after the loop of _createWorkflowGraph every TaskNode that came from
\* the science graph has exactly one quantum file written, at
\* <submitPath>/input/<label>/quantum<node name>.pickle and holding its
\* quantum alone, and exactly one quantum-file FileNode (ignore false, data
\* type quantum) with an edge to it; different TaskNodes have different
\* paths and different FileNodes, and no file is written and no FileNode made
\* for an init TaskNode.
C12_OneQuantumFilePerJob ==
    IsSet(wf) =>
        LET jobs == JobNodes
            qfiles == QuantumFileNodes
        IN  /\ \A n \in jobs :
                LET path == QuantumFilePath(n)
                    files == {f \in qfiles : <<f, n>> \in wf.g.edges}
                IN  /\ Cardinality(WritesTo(path)) = 1
                    /\ \A i \in WritesTo(path) : wf.writes[i].content = <<sci.qgnodes[n]>>
                    /\ Cardinality(files) = 1
                    /\ \A f \in files :
                        /\ wf.g.attr[f].ignore = FALSE
                        /\ wf.g.attr[f].pfn = path
            /\ Cardinality({QuantumFilePath(n) : n \in jobs}) = Cardinality(jobs)
            /\ Cardinality(UNION {{f \in qfiles : <<f, n>> \in wf.g.edges} : n \in jobs})
                   = Cardinality(jobs)
            /\ Len(wf.writes) = Cardinality(jobs)
            /\ Cardinality(qfiles) = Cardinality(jobs)

\* Two jobs of one label and a job of another, each with its quantum file,
\* and an init job that reads the quantum file of its label's first job.
C12_Witness ==
    /\ IsSet(wf)
    /\ cfg.runInit
    /\ Cardinality(JobNodesOf(TaskLabels[1])) = 2
    /\ Cardinality(JobNodesOf(TaskLabels[2])) = 1
    /\ Len(wf.writes) = 3
    /\ \E t \in InitTasks(TaskLabels[1]), n \in JobNodesOf(TaskLabels[1]) :
           QuantumFileNodesOf(t) = QuantumFileNodesOf(n)

\* ------------------------------------------------------------------------
\* Properties of _updateTask

\* The profile.condor map of the site, empty when the site has none
CondorOf(sc) ==
    IF "profile" \in DOMAIN sc.site /\ "condor" \in DOMAIN sc.site.profile
    THEN sc.site.profile.condor ELSE <<>>

\* The keys of a map that start with "+", and the others
PlusKeys(m) == {k \in DOMAIN m : k # <<>> /\ k[1] = "+"}
PlainKeys(m) == DOMAIN m \ PlusKeys(m)

\* The jobProfile and jobAttribs of the node, empty when not attached
ProfileOf(node) == IF "jobProfile" \in DOMAIN node THEN node.jobProfile ELSE <<>>
AttribsOf(node) == IF "jobAttribs" \in DOMAIN node THEN node.jobAttribs ELSE <<>>

\* The keys requestMemory and requestCpus set, when found
RequestKeys(sc) ==
    (IF sc.requestMemory # None THEN {request_memory} ELSE {})
    \cup (IF sc.requestCpus # None THEN {request_cpus} ELSE {})

\* C13: after _updateTask, for every condor map of the site and every
\* combination of found and missing requestMemory and requestCpus: the "+"
\* entries are the job attributes (key without the "+") and none is a
\* profile value, the other entries are profile values and none is an
\* attribute; a found requestMemory or requestCpus is the request_memory or
\* request_cpus of the profile, also when the site has an entry of that
\* name; jobProfile and jobAttribs are attached to the node only when they
\* are not empty.
C13_ProfileAndAttribs ==
    IsSet(tnode) =>
        LET condor == CondorOf(site)
            prof == ProfileOf(tnode)
            attr == AttribsOf(tnode)
        IN  /\ DOMAIN attr = {Tail(k) : k \in PlusKeys(condor)}
            /\ \A k \in PlusKeys(condor) : attr[Tail(k)] = condor[k] /\ k \notin DOMAIN prof
            /\ DOMAIN prof = PlainKeys(condor) \cup RequestKeys(site)
            /\ \A k \in PlainKeys(condor) \ RequestKeys(site) : prof[k] = condor[k]
            /\ site.requestMemory # None => prof[request_memory] = site.requestMemory
            /\ site.requestCpus # None => prof[request_cpus] = site.requestCpus
            /\ "jobProfile" \in DOMAIN tnode <=> DOMAIN prof # {}
            /\ "jobAttribs" \in DOMAIN tnode <=> DOMAIN attr # {}

\* A found requestMemory replaced the site's request_memory entry, next to
\* an attribute of the same name and a missing requestCpus.
C13_Witness ==
    /\ IsSet(tnode)
    /\ site.requestMemory # None
    /\ site.requestCpus = None
    /\ request_memory \in DOMAIN CondorOf(site)
    /\ tnode.jobProfile[request_memory] = site.requestMemory
    /\ request_memory \in DOMAIN AttribsOf(tnode)
    /\ request_cpus \in DOMAIN ProfileOf(tnode)

\* ------------------------------------------------------------------------
\* Properties of the node names

\* The nodes of g, in insertion order, are named by the counter values 1..n
NamedByCounter(g, n) ==
    /\ Len(g.names) = n
    /\ \A i \in 1..n : g.names[i] = NodeName(i)
    /\ \A i \in 1..n, j \in 1..n : g.names[i] = g.names[j] => i = j

\* The labels that have a job
LabelsWithJobs == {L \in Labels : JobNodesOf(L) # {}}

\* C14: node names are unique through both phases. In the science graph the
\* TaskNodes and FileNodes carry the values 1..ncnt of one counter, one node
\* per value, so that the node count is the last value issued; the nodes
\* _createWorkflowGraph adds (quantum-file FileNodes, init TaskNodes,
\* init-output FileNodes) carry the following values, so that none of them
\* has the name of a science-graph node or of another added node, and every
\* science-graph node is in the workflow graph as it was.
C14_UniqueNodeNames ==
    /\ IsSet(sci) =>
        /\ NamedByCounter(sci.g, sci.ncnt)
        /\ sci.ncnt = sci.tcnt + sci.dcnt
        /\ Cardinality(NodesOfType(sci.g, TASKNODE)) = sci.tcnt
        /\ Cardinality(NodesOfType(sci.g, FILENODE)) = sci.dcnt
    /\ IsSet(wf) =>
        /\ NamedByCounter(wf.g, wf.ncnt)
        /\ wf.ncnt = sci.ncnt + Cardinality(JobNodes)
                       + (IF cfg.runInit THEN 2 * Cardinality(LabelsWithJobs) ELSE 0)
        /\ LET added == QuantumFileNodes
                         \cup UNION {InitTasks(L) \cup InitOutputFiles(L) : L \in Labels}
           IN  \A n \in DOMAIN sci.g.attr :
                   /\ wf.g.attr[n].nodeType = sci.g.attr[n].nodeType
                   /\ n \notin added
        /\ Cardinality(QuantumFileNodes) = Cardinality(JobNodes)
        /\ \A L \in LabelsWithJobs :
               cfg.runInit =>
                   /\ Cardinality(InitTasks(L)) = 1
                   /\ Cardinality(InitOutputFiles(L)) = 1

\* A science graph with a FileNode shared by two quanta, augmented with
\* quantum files and the init nodes of two labels.
C14_Witness ==
    /\ IsSet(wf)
    /\ cfg.runInit
    /\ Cardinality(LabelsWithJobs) = 2
    /\ Cardinality(JobNodes) = 3
    /\ sci.dcnt < Cardinality(sci.g.edges)
    /\ wf.ncnt = sci.ncnt + 7

\* ------------------------------------------------------------------------
\* Acyclicity

RECURSIVE AcyclicOn(_, _)
\* No cycle of edges among the nodes N: nodes without an edge from a node of
\* N are removed until none is left.
AcyclicOn(N, edges) ==
    IF N = {} THEN TRUE
    ELSE LET sources == {n \in N : \A m \in N : <<m, n>> \notin edges}
         IN  IF sources = {} THEN FALSE ELSE AcyclicOn(N \ sources, edges)

Acyclic(g) == AcyclicOn(DOMAIN g.attr, g.edges)

\* C15: whenever the science graph is acyclic, the workflow graph is acyclic
\* at the end of the loop, of _link_init_nodes and of _createWorkflowGraph,
\* with runInit off or on, for every pipeline order, derived or configured.
C15_AugmentationKeepsAcyclic ==
    (IsSet(wf) /\ Acyclic(sci.g)) => Acyclic(wf.g)

====
